---- MODULE Spec2Model ----
(***************************************************************************)
(* Model of app.py, the Fed rate-cut dashboard: fetch of the monthly       *)
(* series, find_cut_cycles, the pass-through lag table of tab 1 and the    *)
(* pre/post growth table of tab 3, run top to bottom as the script runs.   *)
(*                                                                         *)
(* Timestamps are month starts (resample("MS")), written as the number of  *)
(* months since January 1990 (START_DATE).  Values are integers, in        *)
(* hundredths of the series' unit, so -0.05 is -5 and -0.25 is -25.        *)
(* A series is a sequence of observations [t, v, nan] in index order; nan  *)
(* marks a missing value (NaN), whose v is not read.                       *)
(***************************************************************************)
EXTENDS Integers, Sequences, FiniteSets, TLC

VARIABLES pc, n, fedfunds, cut_dates, mortgage, dprime, lag_rows,
          rsxfs, pce, growth_rows

vars == <<pc, n, fedfunds, cut_dates, mortgage, dprime, lag_rows,
          rsxfs, pce, growth_rows>>

-----------------------------------------------------------------------------
(* Program constants *)

EpochYear == 1990
DefaultN == 3
CutThreshold == -5
MinSpacingDays == 180
LookaheadMonths == 24
DeclineThreshold == -25
WindowMonths == 12

(* Bounds of the model *)

MaxN == 4
LeapLen == 7
MaxRateLen == 13
ShortLen == 4
MaxObs == 28
MaxCells == 3

-----------------------------------------------------------------------------
(* Calendar: the day count between two month starts *)

IsLeap(y) == y % 4 = 0 /\ (y % 100 # 0 \/ y % 400 = 0)

\* leap years up to and including year y
LeapsThrough(y) == y \div 4 - y \div 100 + y \div 400

\* days from 1 January to the first of month mo (0-based) of a common year
DaysBeforeMonth == <<0, 31, 59, 90, 120, 151, 181, 212, 243, 273, 304, 334>>

\* days from 1 January of EpochYear to the first day of month m
DayOf(m) ==
    LET y == EpochYear + m \div 12
        mo == m % 12
    IN  365 * (y - EpochYear) + (LeapsThrough(y - 1) - LeapsThrough(EpochYear - 1))
        + DaysBeforeMonth[mo + 1] + (IF IsLeap(y) /\ mo >= 2 THEN 1 ELSE 0)

\* (dt - prev).days
days(dt, prev) == DayOf(dt) - DayOf(prev)

-----------------------------------------------------------------------------
(* Series *)

Obs(t, v) == [t |-> t, v |-> v, nan |-> FALSE]
Missing(t) == [t |-> t, v |-> 0, nan |-> TRUE]
isna(e) == e.nan

Max(S) == CHOOSE x \in S : \A y \in S : y <= x
Min(S) == CHOOSE x \in S : \A y \in S : x <= y

\* A fetch that raised
FetchFailed == [ok |-> FALSE, first |-> 0, cells |-> <<>>]
\* The monthly means of what the provider returned, NaN where a month has none
Raw(first, cells) == [ok |-> TRUE, first |-> first, cells |-> cells]

Resampled(raw) ==
    [i \in 1..Len(raw.cells) |->
        [t |-> raw.first + i - 1, v |-> raw.cells[i].v, nan |-> raw.cells[i].nan]]

ffill(s) ==
    [i \in 1..Len(s) |->
        IF ~isna(s[i]) THEN s[i]
        ELSE LET P == {j \in 1..i : ~isna(s[j])}
             IN  IF P = {} THEN s[i] ELSE Obs(s[i].t, s[Max(P)].v)]

dropna(s) == SelectSeq(s, LAMBDA e : ~isna(e))

fetch(raw) == IF ~raw.ok THEN <<>> ELSE dropna(ffill(Resampled(raw)))

empty(s) == Len(s) = 0

\* Python's seq[start:]
SliceFrom(seq, start) ==
    LET from == IF start < 0 THEN (IF Len(seq) + start < 0 THEN 0 ELSE Len(seq) + start)
                ELSE (IF start > Len(seq) THEN Len(seq) ELSE start)
    IN  SubSeq(seq, from + 1, Len(seq))

headOneMore(s, k) == SubSeq(s, 1, IF Len(s) < k + 1 THEN Len(s) ELSE k + 1)
head(s, k) == SubSeq(s, 1, IF Len(s) < k THEN Len(s) ELSE k)

-----------------------------------------------------------------------------
(* find_cut_cycles *)

diff(s) ==
    [i \in 1..Len(s) |->
        IF i = 1 \/ isna(s[i]) \/ isna(s[i - 1]) THEN Missing(s[i].t)
        ELSE Obs(s[i].t, s[i].v - s[i - 1].v)]

IsCutTenfold(d) == d < 10 * CutThreshold
IsCut(d) == d < CutThreshold

cut_months(series) ==
    LET delta == dropna(diff(series))
        sel == SelectSeq(delta, LAMBDA e : IsCut(e.v))
    IN  [i \in 1..Len(sel) |-> sel[i].t]

\* prev is <<>> for None
StartsCycleMonthly(prev, dt) == prev = <<>> \/ days(dt, prev[1]) > 30
StartsCycle(prev, dt) == prev = <<>> \/ days(dt, prev[1]) > MinSpacingDays

RECURSIVE CycleLoopPrevOnAppend(_, _, _, _)
CycleLoopPrevOnAppend(cm, i, cycles, prev) ==
    IF i > Len(cm) THEN cycles
    ELSE IF StartsCycle(prev, cm[i])
         THEN CycleLoopPrevOnAppend(cm, i + 1, Append(cycles, cm[i]), <<cm[i]>>)
         ELSE CycleLoopPrevOnAppend(cm, i + 1, cycles, prev)

RECURSIVE CycleLoop(_, _, _, _)
CycleLoop(cm, i, cycles, prev) ==
    IF i > Len(cm) THEN cycles
    ELSE CycleLoop(cm, i + 1,
                   IF StartsCycle(prev, cm[i]) THEN Append(cycles, cm[i]) ELSE cycles,
                   <<cm[i]>>)

find_cut_cycles(series, k) ==
    LET cm == cut_months(series)
    IN  IF Len(cm) = 0 THEN <<>>
        ELSE SliceFrom(CycleLoop(cm, 1, <<>>, <<>>), -k)

-----------------------------------------------------------------------------
(* Inputs: what the provider may return for the policy rate *)

RECURSIVE Levels(_, _)
\* the levels that follow `base` under the month-over-month changes ds
Levels(base, ds) ==
    IF ds = <<>> THEN <<>>
    ELSE <<Obs(0, base + ds[1])>> \o Levels(base + ds[1], Tail(ds))

\* a series that starts at 5.00 and moves by ds month over month
FromDeltas(first, ds) == Raw(first, <<Obs(0, 500)>> \o Levels(500, ds))

LeapFirstMonths == {24, 25}
CutOrNot == {-6, -5}
RateDeltas == {-60, -10, -6, -5, 0, 10}
RateCells == {Missing(0), Obs(0, 500), Obs(0, 490)}

\* a failed fetch, no observation, or up to MaxRateLen months each a cut or not
LongRates ==
    {FetchFailed, Raw(0, <<>>)}
    \cup {FromDeltas(0, ds) : ds \in UNION {[1..k -> CutOrNot] : k \in 0..MaxRateLen}}

\* the same over a leap February
LeapRates ==
    {FromDeltas(f, ds) : f \in LeapFirstMonths,
         ds \in UNION {[1..k -> CutOrNot] : k \in 0..LeapLen}}

\* short series of larger and smaller moves, up and down
ShortRates ==
    {FromDeltas(0, ds) : ds \in UNION {[1..k -> RateDeltas] : k \in 0..ShortLen}}

\* short series with months the provider has no value for
CellRates ==
    {Raw(0, c) : c \in UNION {[1..k -> RateCells] : k \in 0..MaxCells}}

-----------------------------------------------------------------------------
(* The script *)

NoRows == <<>>

Init ==
    /\ pc = "load"
    /\ n = DefaultN
    /\ fedfunds = <<>>
    /\ cut_dates = <<>>
    /\ mortgage = <<>>
    /\ dprime = <<>>
    /\ lag_rows = NoRows
    /\ rsxfs = <<>>
    /\ pce = <<>>
    /\ growth_rows = NoRows

\* lines 111-113
LoadFedFunds(inputs) ==
    /\ pc = "load"
    /\ \E raw \in inputs :
          /\ fedfunds' = fetch(raw)
          /\ cut_dates' = find_cut_cycles(fetch(raw), n)
    /\ pc' = "check"
    /\ UNCHANGED <<n, mortgage, dprime, lag_rows, rsxfs, pce, growth_rows>>

\* lines 115-117
CheckCyclesNoStop ==
    /\ pc = "check"
    /\ pc' = "tab1"
    /\ UNCHANGED <<n, fedfunds, cut_dates, mortgage, dprime, lag_rows,
                   rsxfs, pce, growth_rows>>

CheckCycles ==
    /\ pc = "check"
    /\ pc' = IF cut_dates = <<>> THEN "stopped" ELSE "tab1"
    /\ UNCHANGED <<n, fedfunds, cut_dates, mortgage, dprime, lag_rows,
                   rsxfs, pce, growth_rows>>

-----------------------------------------------------------------------------
(* Tab 1: the pass-through lag table *)

MortgageName == "Mortgage (MORTGAGE30US)"
PrimeName == "Prime (DPRIME)"

\* series.asof(dt) looked up at dt only
asof_exact(series, dt) ==
    LET P == {i \in 1..Len(series) : series[i].t = dt /\ ~isna(series[i])}
    IN  IF P = {} THEN Missing(dt) ELSE series[Max(P)]

\* series.asof(dt) looked up strictly before dt
asof_before(series, dt) ==
    LET P == {i \in 1..Len(series) : series[i].t < dt /\ ~isna(series[i])}
    IN  IF P = {} THEN Missing(dt) ELSE series[Max(P)]

\* series.asof(dt): the last non-NaN value at or before dt, NaN if there is none
asof(series, dt) ==
    LET P == {i \in 1..Len(series) : series[i].t <= dt /\ ~isna(series[i])}
    IN  IF P = {} THEN Missing(dt) ELSE series[Max(P)]

\* series[series.index >= dt].head(24)
post_lag(series, dt) == head(SelectSeq(series, LAMBDA e : e.t >= dt), LookaheadMonths)

RECURSIVE FirstDecline(_, _, _)
\* next((j for j, v in enumerate(post.values) if ...), None); <<>> is None
FirstDecline(post, base, j) ==
    IF j >= Len(post) THEN <<>>
    ELSE IF ~isna(post[j + 1]) /\ post[j + 1].v - base <= DeclineThreshold THEN <<j>>
    ELSE FirstDecline(post, base, j + 1)

NA == <<"n/a">>
Over24 == <<">24 mo">>
Months(idx) == <<idx, " mo">>

lag(series, dt) ==
    LET base == asof(series, dt)
        post == post_lag(series, dt)
    IN  IF isna(base) THEN NA
        ELSE LET idx == FirstDecline(post, base.v, 0)
             IN  IF idx # <<>> THEN Months(idx[1]) ELSE Over24

\* f"Cycle {i+1}  ({dt.strftime('%b %Y')})", i counted from 1 here
cycle_label(i, dt) == <<i, dt>>

RECURSIVE LagSeriesLoopBreak(_, _, _, _)
LagSeriesLoopBreak(label, named, k, rows) ==
    IF k > Len(named) THEN rows
    ELSE IF empty(named[k].series) THEN rows
    ELSE LagSeriesLoopBreak(label, named, k + 1,
            Append(rows, [Cycle |-> label, Series |-> named[k].sname,
                          Lag |-> lag(named[k].series, label[2])]))

RECURSIVE LagSeriesLoop(_, _, _, _)
\* lines 166-183: one row per non-empty series
LagSeriesLoop(label, named, k, rows) ==
    IF k > Len(named) THEN rows
    ELSE IF empty(named[k].series) THEN LagSeriesLoop(label, named, k + 1, rows)
    ELSE LagSeriesLoop(label, named, k + 1,
            Append(rows, [Cycle |-> label, Series |-> named[k].sname,
                          Lag |-> lag(named[k].series, label[2])]))

RECURSIVE LagCycleLoop(_, _, _, _)
\* lines 164-183
LagCycleLoop(cuts, i, named, rows) ==
    IF i > Len(cuts) THEN rows
    ELSE LagCycleLoop(cuts, i + 1, named,
            LagSeriesLoop(cycle_label(i, cuts[i]), named, 1, rows))

lag_table(cuts, m, d) ==
    LagCycleLoop(cuts, 1, <<[sname |-> MortgageName, series |-> m],
                            [sname |-> PrimeName, series |-> d]>>, NoRows)

\* lines 129-190
Tab1(inputsM, inputsD) ==
    /\ pc = "tab1"
    /\ \E rm \in inputsM, rd \in inputsD :
          /\ mortgage' = fetch(rm)
          /\ dprime' = fetch(rd)
          /\ lag_rows' = lag_table(cut_dates, fetch(rm), fetch(rd))
    /\ pc' = "tab2"
    /\ UNCHANGED <<n, fedfunds, cut_dates, rsxfs, pce, growth_rows>>

-----------------------------------------------------------------------------
(* Tab 2 draws the delinquency charts and computes no table *)

\* lines 196-248
Tab2 ==
    /\ pc = "tab2"
    /\ pc' = "tab3"
    /\ UNCHANGED <<n, fedfunds, cut_dates, mortgage, dprime, lag_rows,
                   rsxfs, pce, growth_rows>>

-----------------------------------------------------------------------------
(* Tab 3: the pre/post growth table *)

SalesName == "RSXFS"
PceName == "PCE"

\* series[(series.index > lo) & (series.index <= hi)]
window(series, lo, hi) == SelectSeq(series, LAMBDA e : e.t > lo /\ e.t <= hi)

RECURSIVE SumSeq(_)
SumSeq(s) == IF s = <<>> THEN 0 ELSE s[1].v + SumSeq(Tail(s))

\* Series.mean(): NaN values are skipped, the mean of none is NaN
mean(s) ==
    LET vs == dropna(s)
    IN  [nan |-> vs = <<>>, sum |-> SumSeq(vs), cnt |-> Len(vs)]

NonZeroAlways(m) == TRUE
\* pre.mean() != 0, which NaN satisfies
NonZero(m) == m.nan \/ m.sum # 0

Abs(x) == IF x < 0 THEN -x ELSE x

\* a / b rounded to the nearest integer, ties to even (a >= 0, b > 0)
RoundHalfEven(a, b) ==
    LET q == a \div b
        r == a % b
    IN  IF 2 * r > b THEN q + 1
        ELSE IF 2 * r = b THEN q + (q % 2)
        ELSE q

\* f"{pct:+.1f}%" of pct = (post.mean() - pre.mean()) / pre.mean() * 100:
\* sign, tenths of a percent, "%"; a zero divisor gives inf or nan
format_pct(pre, post) ==
    IF pre.nan \/ post.nan THEN <<"+nan%">>
    ELSE LET num == post.sum * pre.cnt - pre.sum * post.cnt
             den == pre.sum * post.cnt
         IN  IF den = 0
             THEN (IF num = 0 THEN <<"+nan%">>
                   ELSE IF num > 0 THEN <<"+inf%">> ELSE <<"-inf%">>)
             ELSE <<IF (num < 0) = (den < 0) /\ ~(num = 0 /\ den < 0) THEN "+" ELSE "-",
                    RoundHalfEven(Abs(num) * 1000, Abs(den)), "%">>

RECURSIVE GrowthSeriesLoop(_, _, _, _)
\* lines 298-315: a row only when both windows have data and mean(pre) is not 0
GrowthSeriesLoop(label, named, k, rows) ==
    IF k > Len(named) THEN rows
    ELSE IF empty(named[k].series) THEN GrowthSeriesLoop(label, named, k + 1, rows)
    ELSE LET dt == label[2]
             post == window(named[k].series, dt, dt + WindowMonths)
             pre == window(named[k].series, dt - WindowMonths, dt)
         IN  IF ~empty(post) /\ ~empty(pre) /\ NonZero(mean(pre))
             THEN GrowthSeriesLoop(label, named, k + 1,
                     Append(rows, [Cycle |-> label, Series |-> named[k].sname,
                                   Change |-> format_pct(mean(pre), mean(post))]))
             ELSE GrowthSeriesLoop(label, named, k + 1, rows)

RECURSIVE GrowthCycleLoop(_, _, _, _)
\* lines 296-315
GrowthCycleLoop(cuts, i, named, rows) ==
    IF i > Len(cuts) THEN rows
    ELSE GrowthCycleLoop(cuts, i + 1, named,
            GrowthSeriesLoop(cycle_label(i, cuts[i]), named, 1, rows))

growth_table(cuts, r, p) ==
    GrowthCycleLoop(cuts, 1, <<[sname |-> SalesName, series |-> r],
                               [sname |-> PceName, series |-> p]>>, NoRows)

\* lines 254-326
Tab3(inputsR, inputsP) ==
    /\ pc = "tab3"
    /\ \E rr \in inputsR, rp \in inputsP :
          /\ rsxfs' = fetch(rr)
          /\ pce' = fetch(rp)
          /\ growth_rows' = growth_table(cut_dates, fetch(rr), fetch(rp))
    /\ pc' = "done"
    /\ UNCHANGED <<n, fedfunds, cut_dates, mortgage, dprime, lag_rows>>

-----------------------------------------------------------------------------
(* Inputs: the policy rate of the page runs, and the comparison series *)

\* a rate series of len months that falls by 0.10 in the months of S
CutsAt(S, len) ==
    FromDeltas(0, [i \in 1..(len - 1) |-> IF i \in S THEN -10 ELSE 0])

AppRateLen == 15
AppCutMonths == {2, 3, 14}

AppRateInputs ==
    {FetchFailed, FromDeltas(0, <<>>)}
    \cup {CutsAt(S, AppRateLen) : S \in SUBSET AppCutMonths}

\* len months at `level`, moved by `step` from the k-th month on
Step(len, k, level, step) ==
    [i \in 1..len |-> Obs(0, IF i < k THEN level ELSE level + step)]

CellSeqs(cells) == UNION {[1..k -> cells] : k \in 0..MaxCells}

LagFirstMonths == {0, 3}
LagSteps == {-26, -25, -24}
LagCells == {Missing(0), Obs(0, 700), Obs(0, 676), Obs(0, 675)}

LagStepInputs ==
    {FetchFailed}
    \cup {Raw(f, Step(len, k, 700, d)) :
              f \in LagFirstMonths, d \in LagSteps,
              len \in 1..MaxObs, k \in 1..MaxObs}

LagCellInputs == {Raw(f, c) : f \in {1, 2}, c \in CellSeqs(LagCells)}

FewPrimeInputs == {FetchFailed, Raw(1, Step(4, 3, 850, -50))}

GrowthCells == {Missing(0), Obs(0, -100), Obs(0, 100), Obs(0, 110)}
GrowthShapes == {<<100, 10>>, <<0, 10>>, <<100, -100>>}

GrowthStepInputs ==
    {FetchFailed}
    \cup {Raw(0, Step(len, k, sh[1], sh[2])) :
              sh \in GrowthShapes, len \in 1..MaxObs, k \in 1..MaxObs}

GrowthCellInputs == {Raw(f, c) : f \in {1, 2, 13}, c \in CellSeqs(GrowthCells)}

FewPceInputs == {FetchFailed, Raw(0, Step(6, 4, 900, 45))}

AppMortgageInputs ==
    {FetchFailed} \cup {Raw(f, Step(6, k, 700, -25)) : f \in {0, 3}, k \in {1, 5}}
AppPrimeInputs ==
    {FetchFailed} \cup {Raw(1, Step(4, k, 850, -50)) : k \in {3, 5}}
AppSalesInputs ==
    {FetchFailed} \cup {Raw(f, Step(6, 4, level, 10)) : f \in {0, 13}, level \in {0, 100}}
AppPceInputs ==
    {FetchFailed} \cup {Raw(f, Step(6, 4, 900, 45)) : f \in {0, 13}}

(* The page run *)
Next ==
    \/ LoadFedFunds(AppRateInputs)
    \/ CheckCycles
    \/ Tab1(AppMortgageInputs, AppPrimeInputs)
    \/ Tab2
    \/ Tab3(AppSalesInputs, AppPceInputs)

Spec == Init /\ [][Next]_vars

\* the script runs on until it ends or stops
FairSpec == Spec /\ WF_vars(Next)

(* find_cut_cycles on its own: every n, a wide family of rate series *)
InitDetect ==
    /\ pc = "load"
    /\ n \in 0..MaxN
    /\ fedfunds = <<>>
    /\ cut_dates = <<>>
    /\ mortgage = <<>>
    /\ dprime = <<>>
    /\ lag_rows = NoRows
    /\ rsxfs = <<>>
    /\ pce = <<>>
    /\ growth_rows = NoRows

NextDetect ==
    \/ LoadFedFunds(LongRates)
    \/ LoadFedFunds(LeapRates)
    \/ LoadFedFunds(ShortRates)
    \/ LoadFedFunds(CellRates)

SpecDetect == InitDetect /\ [][NextDetect]_vars

-----------------------------------------------------------------------------
(* What the claims about find_cut_cycles speak of, stated over sets *)

\* the months whose value is more than 0.05 below the month before
CutSet(series) ==
    {series[i].t : i \in {j \in 2..Len(series) :
        /\ ~series[j].nan /\ ~series[j - 1].nan
        /\ series[j].v - series[j - 1].v < CutThreshold}}

\* the first cut month of every maximal run of cut months that follow one
\* another by at most MinSpacingDays
RunStartSet(series) ==
    LET C == CutSet(series)
    IN  {c \in C : LET before == {x \in C : x < c}
                   IN  before = {} \/ DayOf(c) - DayOf(Max(before)) > MinSpacingDays}

SortedSeq(S) ==
    [i \in 1..Cardinality(S) |-> CHOOSE x \in S : Cardinality({y \in S : y < x}) = i - 1]

LastOf(seq, k) == SubSeq(seq, Len(seq) - k + 1, Len(seq))

\* Jan 5.0, Feb 4.9, Mar 4.8, Apr 4.2, May 4.1
ExampleSeries ==
    <<Obs(0, 500), Obs(1, 490), Obs(2, 480), Obs(3, 420), Obs(4, 410)>>

\* C1: the cycle starts find_cut_cycles returns are strictly increasing and
\* any two of them, adjacent or not, are more than 180 days apart.
C1_CycleStartsSpaced ==
    pc = "check" =>
        \A i, j \in 1..Len(cut_dates) :
            i < j => /\ cut_dates[i] < cut_dates[j]
                     /\ DayOf(cut_dates[j]) - DayOf(cut_dates[i]) > MinSpacingDays

C1_Witness == pc = "check" /\ Len(cut_dates) >= 3

\* C2 (as claimed): for every n >= 0, n = 0 included, find_cut_cycles returns
\* at most n entries, the last min(n, total) cycle starts of the full
\* detection in increasing order.
C2_AtMostNMostRecent ==
    pc = "check" =>
        LET full == SortedSeq(RunStartSet(fedfunds))
            k == IF n < Len(full) THEN n ELSE Len(full)
        IN  /\ Len(cut_dates) <= n
            /\ cut_dates = LastOf(full, k)

\* C3: when nothing is truncated, the cycle starts are exactly the first cut
\* months of the maximal runs of cut months spaced at most 180 days apart,
\* one per run, in chronological order.
C3_OneStartPerRun ==
    (pc = "check" /\ n >= Cardinality(RunStartSet(fedfunds))) =>
        cut_dates = SortedSeq(RunStartSet(fedfunds))

C3_Witness ==
    /\ pc = "check"
    /\ n >= Len(cut_dates)
    /\ Len(cut_dates) >= 2
    /\ Cardinality(CutSet(fedfunds)) > Len(cut_dates) + 1

\* C4 (as claimed): on the example series April is the only cut month and
\* the only cycle start.
C4_AprilOnly ==
    (pc = "check" /\ n = DefaultN /\ fedfunds = ExampleSeries) =>
        /\ cut_months(fedfunds) = <<3>>
        /\ cut_dates = <<3>>

\* C4 (amended): on the example series the cut months are February, March,
\* April and May, and February is the only cycle start.
C4_FebruaryOnly ==
    (pc = "check" /\ n = DefaultN /\ fedfunds = ExampleSeries) =>
        /\ cut_months(fedfunds) = <<1, 2, 3, 4>>
        /\ cut_dates = <<1>>

C4_Witness ==
    pc = "check" /\ n = DefaultN /\ fedfunds = ExampleSeries /\ cut_dates # <<>>

(* The lag table on its own: a wide family of mortgage series *)
NextLag ==
    \/ LoadFedFunds(AppRateInputs)
    \/ CheckCycles
    \/ Tab1(LagStepInputs, FewPrimeInputs)
    \/ Tab1(LagCellInputs, FewPrimeInputs)

SpecLag == Init /\ [][NextLag]_vars

-----------------------------------------------------------------------------
(* What the claims about the lag table speak of, stated over sets *)

ObsSet(series) == {series[i] : i \in 1..Len(series)}
Valid(series) == {e \in ObsSet(series) : ~e.nan}

HasBase(series, dt) == \E e \in Valid(series) : e.t <= dt

\* the value at or immediately before dt
BaseValue(series, dt) ==
    LET P == {e \in Valid(series) : e.t <= dt}
    IN  (CHOOSE e \in P : \A f \in P : f.t <= e.t).v

\* the zero-based position of e among the observations on or after dt
Offset(series, dt, e) ==
    Cardinality({f \in ObsSet(series) : dt <= f.t /\ f.t < e.t})

\* the offsets, within the first 24 observations on or after dt, of the
\* observations at least 0.25 below the base
DeclineOffsets(series, dt) ==
    LET b == BaseValue(series, dt)
        after == {f \in ObsSet(series) : f.t >= dt}
        pos(e) == Cardinality({f \in after : f.t < e.t})
    IN  {pos(e) : e \in {f \in after :
                            /\ ~f.nan
                            /\ pos(f) < LookaheadMonths
                            /\ f.v - b <= DeclineThreshold}}

LagSeries(sname) == IF sname = MortgageName THEN mortgage ELSE dprime
LagDone == pc \in {"tab2", "tab3", "done"}

\* C5: where a base exists, the lag is the zero-based offset, among the first
\* 24 observations on or after the cycle start, of the first one at least
\* 0.25 below the base; a numeric lag lies in [0, 24); with no such
\* observation the result is '>24 mo'.
C5_LagIsFirstDeclineOffset ==
    LagDone =>
        \A k \in 1..Len(lag_rows) :
            LET r == lag_rows[k]
                s == LagSeries(r.Series)
                dt == r.Cycle[2]
            IN  HasBase(s, dt) =>
                    LET Q == DeclineOffsets(s, dt)
                    IN  IF Q = {} THEN r.Lag = Over24
                        ELSE /\ r.Lag = Months(Min(Q))
                             /\ Min(Q) >= 0 /\ Min(Q) < LookaheadMonths

\* a numeric lag in one row, and in another '>24 mo' for a series that does
\* reach the decline, but only after the 24-observation window
C5_Witness ==
    /\ LagDone
    /\ \E k \in 1..Len(lag_rows) :
          Len(lag_rows[k].Lag) = 2 /\ lag_rows[k].Lag[1] >= 1
    /\ \E k \in 1..Len(lag_rows) :
          LET r == lag_rows[k]
              s == LagSeries(r.Series)
          IN  /\ r.Lag = Over24
              /\ \E e \in Valid(s) :
                    /\ Offset(s, r.Cycle[2], e) >= LookaheadMonths
                    /\ e.v - BaseValue(s, r.Cycle[2]) <= DeclineThreshold

\* C6: a lag row reads 'n/a' exactly when its series has no observation at
\* or before the cycle start; '>24 mo' is a different text, given only when
\* a base exists and no observation of the window reaches the decline; no
\* (series, cycle) pair gets two rows.
C6_NAIffNoBase ==
    LagDone =>
        /\ NA # Over24
        /\ \A k \in 1..Len(lag_rows) :
              LET r == lag_rows[k]
                  s == LagSeries(r.Series)
                  dt == r.Cycle[2]
              IN  /\ (r.Lag = NA) <=> ~HasBase(s, dt)
                  /\ (r.Lag = Over24) =>
                        (HasBase(s, dt) /\ DeclineOffsets(s, dt) = {})
        /\ \A k, l \in 1..Len(lag_rows) :
              (lag_rows[k].Cycle = lag_rows[l].Cycle
                 /\ lag_rows[k].Series = lag_rows[l].Series) => k = l

C6_Witness ==
    /\ LagDone
    /\ \E k, l \in 1..Len(lag_rows) :
          /\ lag_rows[k].Series = lag_rows[l].Series
          /\ lag_rows[k].Lag = NA
          /\ lag_rows[l].Lag = Over24

\* C10: when the series has an observation dated exactly at the cycle start,
\* the base is that observation and the lag is not 0; a lag of 0 needs a base
\* taken strictly before the cycle start and a first observation on or after
\* it that is already at least 0.25 below that base.
C10_NoZeroLagAtCycleStart ==
    LagDone =>
        \A k \in 1..Len(lag_rows) :
            LET r == lag_rows[k]
                s == LagSeries(r.Series)
                dt == r.Cycle[2]
                at == {e \in Valid(s) : e.t = dt}
            IN  /\ at # {} =>
                      /\ \A e \in at : ~isna(asof(s, dt)) /\ asof(s, dt).v = e.v
                      /\ r.Lag # Months(0)
                /\ r.Lag = Months(0) =>
                      /\ at = {}
                      /\ \E b \in Valid(s) : b.t < dt /\ b.v = BaseValue(s, dt)
                      /\ \E e \in Valid(s) :
                            /\ e.t >= dt
                            /\ Offset(s, dt, e) = 0
                            /\ e.v - BaseValue(s, dt) <= DeclineThreshold

\* a row whose series is, at the cycle start itself, already 0.25 below the
\* month before
C10_Witness ==
    /\ LagDone
    /\ \E k \in 1..Len(lag_rows) :
          LET r == lag_rows[k]
              s == LagSeries(r.Series)
              dt == r.Cycle[2]
          IN  \E e, b \in Valid(s) :
                 /\ e.t = dt /\ b.t = dt - 1
                 /\ e.v - b.v <= DeclineThreshold
                 /\ r.Lag = Over24

(* The growth table on its own: a wide family of retail-sales series *)
NextGrowth ==
    \/ LoadFedFunds(AppRateInputs)
    \/ CheckCycles
    \/ Tab1({FetchFailed}, FewPrimeInputs)
    \/ Tab2
    \/ Tab3(GrowthStepInputs, FewPceInputs)
    \/ Tab3(GrowthCellInputs, FewPceInputs)

SpecGrowth == Init /\ [][NextGrowth]_vars

-----------------------------------------------------------------------------
(* What the claims about the growth table and the page run speak of *)

RECURSIVE SumOf(_)
SumOf(S) == IF S = {} THEN 0 ELSE LET e == CHOOSE x \in S : TRUE IN e.v + SumOf(S \ {e})

\* the data in (cycleStart - 12 months, cycleStart] and in
\* (cycleStart, cycleStart + 12 months]
PreData(series, dt) == {e \in Valid(series) : dt - WindowMonths < e.t /\ e.t <= dt}
PostData(series, dt) == {e \in Valid(series) : dt < e.t /\ e.t <= dt + WindowMonths}

Absent(series, dt) ==
    \/ PreData(series, dt) = {}
    \/ PostData(series, dt) = {}
    \/ SumOf(PreData(series, dt)) = 0

GrowthSeries(sname) == IF sname = SalesName THEN rsxfs ELSE pce
GrowthDone == pc = "done"

LagRowsOf(i, sname) ==
    {k \in 1..Len(lag_rows) :
        lag_rows[k].Cycle = <<i, cut_dates[i]>> /\ lag_rows[k].Series = sname}
GrowthRowsOf(i, sname) ==
    {k \in 1..Len(growth_rows) :
        growth_rows[k].Cycle = <<i, cut_dates[i]>> /\ growth_rows[k].Series = sname}

\* C7: for every cycle and series, if the pre window or the post window has
\* no data, or the mean of pre is exactly zero, no percent change is produced
\* for the pair; no row holds the result of a division by a zero or missing
\* pre-window mean.
C7_NoGrowthOnZeroOrEmptyBaseline ==
    GrowthDone =>
        /\ \A i \in 1..Len(cut_dates) : \A sname \in {SalesName, PceName} :
              Absent(GrowthSeries(sname), cut_dates[i]) => GrowthRowsOf(i, sname) = {}
        /\ \A k \in 1..Len(growth_rows) :
              /\ Len(growth_rows[k].Change) = 3
              /\ SumOf(PreData(GrowthSeries(growth_rows[k].Series),
                               growth_rows[k].Cycle[2])) # 0

\* a pair left out for its zero pre-window mean alone, beside a pair that
\* got its percent change
C7_Witness ==
    /\ GrowthDone
    /\ growth_rows # NoRows
    /\ \E i \in 1..Len(cut_dates) :
          /\ PreData(rsxfs, cut_dates[i]) # {}
          /\ PostData(rsxfs, cut_dates[i]) # {}
          /\ \E e \in PreData(rsxfs, cut_dates[i]) : e.v # 0
          /\ SumOf(PreData(rsxfs, cut_dates[i])) = 0
          /\ GrowthRowsOf(i, SalesName) = {}

\* C8: a run whose cycle list is empty (a failed fetch and a series of fewer
\* than 2 observations included) goes to the terminal error state and stays
\* there, with no lag and no growth computation; the tabs only ever run with
\* a non-empty cycle list.
C8_EmptyCyclesStopTheRun ==
    /\ [](pc = "check" /\ Len(fedfunds) < 2 => cut_dates = <<>>)
    /\ [](pc \in {"tab1", "tab2", "tab3", "done"} => cut_dates # <<>>)
    /\ [](pc = "stopped" =>
            cut_dates = <<>> /\ lag_rows = NoRows /\ growth_rows = NoRows)
    /\ [][pc = "stopped" => pc' = "stopped"]_vars
    /\ ((pc = "check" /\ cut_dates = <<>>) ~> pc = "stopped")

C8_Witness == pc = "stopped" /\ Len(fedfunds) < 2

\* the lag text the claims describe, from the series and the cycle start alone
ExpectedLag(series, dt) ==
    IF ~HasBase(series, dt) THEN NA
    ELSE LET Q == DeclineOffsets(series, dt)
         IN  IF Q = {} THEN Over24 ELSE Months(Min(Q))

\* the percent change the claims describe, from the series and the cycle
\* start alone
ExpectedChange(series, dt) ==
    LET pre == PreData(series, dt)
        post == PostData(series, dt)
    IN  format_pct([nan |-> FALSE, sum |-> SumOf(pre), cnt |-> Cardinality(pre)],
                   [nan |-> FALSE, sum |-> SumOf(post), cnt |-> Cardinality(post)])

\* C9: an empty comparison series does not end the run: each cycle has
\* exactly one lag row for every non-empty series and none for an empty one,
\* and every lag and growth result is what its own series and cycle start
\* give, whatever the other series is.
C9_EmptySeriesIsLocal ==
    pc = "done" =>
        /\ \A i \in 1..Len(cut_dates) : \A sname \in {MortgageName, PrimeName} :
              /\ Cardinality(LagRowsOf(i, sname))
                    = (IF empty(LagSeries(sname)) THEN 0 ELSE 1)
              /\ \A k \in LagRowsOf(i, sname) :
                    lag_rows[k].Lag = ExpectedLag(LagSeries(sname), cut_dates[i])
        /\ \A i \in 1..Len(cut_dates) : \A sname \in {SalesName, PceName} :
              /\ Cardinality(GrowthRowsOf(i, sname))
                    = (IF empty(GrowthSeries(sname))
                          \/ Absent(GrowthSeries(sname), cut_dates[i]) THEN 0 ELSE 1)
              /\ \A k \in GrowthRowsOf(i, sname) :
                    growth_rows[k].Change
                        = ExpectedChange(GrowthSeries(sname), cut_dates[i])
        /\ Len(lag_rows) <= 2 * Len(cut_dates)
        /\ Len(growth_rows) <= 2 * Len(cut_dates)

\* the mortgage and retail-sales fetches failed; the prime rate and PCE
\* still have their rows
C9_Witness ==
    /\ pc = "done"
    /\ empty(mortgage) /\ ~empty(dprime)
    /\ Len(lag_rows) = Len(cut_dates)
    /\ empty(rsxfs) /\ ~empty(pce)
    /\ growth_rows # NoRows

====
